---- MODULE Spec2Model ----
(***************************************************************************)
(* Model of the JobFit Finder front end: the submission form               *)
(* (frontend/app/components/UploadForm.tsx), the session-storage hand-off  *)
(* under the key "jobResults", and the results view                        *)
(* (frontend/app/results/page.tsx, frontend/app/components/ResultsList.tsx)*)
(***************************************************************************)
EXTENDS Integers, Sequences, FiniteSets, TLC

VARIABLES
    formData,    \* useState<FormData> of the mounted form instance
    errors,      \* useState<FormErrors>
    isLoading,   \* useState(false)
    inputMode,   \* useState<"paste" | "upload">
    inst,        \* identity of the mounted (or last mounted) form instance
    handlers,    \* handleSubmit calls suspended at an await, oldest first
    route,       \* the page the router shows: "form" or "results"
    storage,     \* sessionStorage slot "jobResults"
    results,     \* ResultsPage useState<MatchResult[]>
    loading      \* ResultsPage useState(true)

vars == <<formData, errors, isLoading, inputMode, inst, handlers,
          route, storage, results, loading>>

formVars == <<formData, errors, isLoading, inputMode>>
viewVars == <<route, storage, results, loading>>

-----------------------------------------------------------------------------
(* Bounds of the model *)

MaxResults == 5      \* longest result list drawn as a stored value
MaxInstances == 2    \* form instances mounted in one browser session
MaxUrlLen == 3       \* longest companyJobsUrl, in lexical pieces
MaxDescLen == 2      \* longest desiredJobDescription, in characters
MaxGapsLen == 2      \* longest gaps list of a rendered result

-----------------------------------------------------------------------------
(* JavaScript values as the JSON functions and property accesses see them.  *)
(* A value is a record tagged by t; an object holds its list of              *)
(* <<key, value>> members in insertion order.                               *)

JNull == [t |-> "null"]
JUndef == [t |-> "undef"]
JNum(n) == [t |-> "num", n |-> n]
JStr(s) == [t |-> "str", s |-> s]
JArr(s) == [t |-> "arr", a |-> s]
JObj(members) == [t |-> "obj", m |-> members]

(* Lexical pieces of a JSON text. *)
Punct(c) == [k |-> "p", w |-> c]
Lit(w) == [k |-> "lit", w |-> w]
NumTok(n) == [k |-> "num", n |-> n]
StrTok(s) == [k |-> "str", w |-> s]
Junk(w) == [k |-> "junk", w |-> w]

RECURSIVE Stringify(_)
RECURSIVE StringifyElems(_)
RECURSIVE StringifyMembers(_)

(* JSON.stringify of a defined value: the text, as its sequence of pieces. *)
Stringify(x) ==
    CASE x.t = "null" -> <<Lit("null")>>
      [] x.t = "num" -> <<NumTok(x.n)>>
      [] x.t = "str" -> <<StrTok(x.s)>>
      [] x.t = "arr" -> <<Punct("[")>> \o StringifyElems(x.a) \o <<Punct("]")>>
      [] x.t = "obj" -> <<Punct("{")>> \o StringifyMembers(x.m) \o <<Punct("}")>>

StringifyElems(s) ==
    IF s = <<>> THEN <<>>
    ELSE IF Len(s) = 1 THEN Stringify(s[1])
    ELSE Stringify(s[1]) \o <<Punct(",")>> \o StringifyElems(Tail(s))

StringifyMembers(s) ==
    IF s = <<>> THEN <<>>
    ELSE LET m == <<StrTok(s[1][1]), Punct(":")>> \o Stringify(s[1][2])
         IN  IF Len(s) = 1 THEN m
             ELSE m \o <<Punct(",")>> \o StringifyMembers(Tail(s))

(* The string a storage slot holds after setItem(key, JSON.stringify(x)):    *)
(* JSON.stringify(undefined) is undefined, which setItem stores as the text  *)
(* "undefined".                                                              *)
StoredText(x) == IF x.t = "undef" THEN <<Junk("undefined")>> ELSE Stringify(x)

ParseFail == [ok |-> FALSE, val |-> JNull, rest |-> <<>>]
ParseOk(x, rest) == [ok |-> TRUE, val |-> x, rest |-> rest]

RECURSIVE ParseValue(_)
RECURSIVE ParseElems(_, _)
RECURSIVE ParseMembers(_, _)

(* One JSON value off the front of a text. *)
ParseValue(s) ==
    IF s = <<>> THEN ParseFail
    ELSE LET h == s[1] IN
         CASE h.k = "lit" -> IF h.w = "null" THEN ParseOk(JNull, Tail(s)) ELSE ParseFail
           [] h.k = "num" -> ParseOk(JNum(h.n), Tail(s))
           [] h.k = "str" -> ParseOk(JStr(h.w), Tail(s))
           [] h.k = "junk" -> ParseFail
           [] h.k = "p" ->
                IF h.w = "[" THEN
                    IF Len(s) >= 2 /\ s[2] = Punct("]")
                    THEN ParseOk(JArr(<<>>), SubSeq(s, 3, Len(s)))
                    ELSE ParseElems(Tail(s), <<>>)
                ELSE IF h.w = "{" THEN
                    IF Len(s) >= 2 /\ s[2] = Punct("}")
                    THEN ParseOk(JObj(<<>>), SubSeq(s, 3, Len(s)))
                    ELSE ParseMembers(Tail(s), <<>>)
                ELSE ParseFail

ParseElems(s, acc) ==
    LET r == ParseValue(s) IN
    IF ~r.ok \/ r.rest = <<>> THEN ParseFail
    ELSE IF r.rest[1] = Punct(",") THEN ParseElems(Tail(r.rest), Append(acc, r.val))
    ELSE IF r.rest[1] = Punct("]") THEN ParseOk(JArr(Append(acc, r.val)), Tail(r.rest))
    ELSE ParseFail

ParseMembers(s, acc) ==
    IF Len(s) < 2 \/ s[1].k # "str" \/ s[2] # Punct(":") THEN ParseFail
    ELSE LET r == ParseValue(SubSeq(s, 3, Len(s))) IN
         IF ~r.ok \/ r.rest = <<>> THEN ParseFail
         ELSE LET acc2 == Append(acc, <<s[1].w, r.val>>) IN
              IF r.rest[1] = Punct(",") THEN ParseMembers(Tail(r.rest), acc2)
              ELSE IF r.rest[1] = Punct("}") THEN ParseOk(JObj(acc2), Tail(r.rest))
              ELSE ParseFail

(* JSON.parse(text): ok is FALSE where it throws a SyntaxError. *)
JSONParse(text) ==
    LET r == ParseValue(text) IN
    IF r.ok /\ r.rest = <<>> THEN r ELSE ParseFail

(* x.key for a value x that is neither null nor undefined. *)
RECURSIVE Lookup(_, _)
Lookup(members, key) ==
    IF members = <<>> THEN JUndef
    ELSE IF members[Len(members)][1] = key THEN members[Len(members)][2]
    ELSE Lookup(SubSeq(members, 1, Len(members) - 1), key)

Get(x, key) == IF x.t = "obj" THEN Lookup(x.m, key) ELSE JUndef

Nullish(x) == x.t \in {"null", "undef"}

(* x.length === 0 for a non-nullish x. *)
LengthIsZero(x) ==
    CASE x.t = "arr" -> Len(x.a) = 0
      [] x.t = "str" -> x.s = ""
      [] OTHER -> FALSE

-----------------------------------------------------------------------------
(* Result records of the matching endpoint (interface MatchResult).         *)

Sentinel == "No significant gaps identified"

ScoreOf(i) == IF i <= 6 THEN <<80, 79, 60, 59, 40, 39>>[i] ELSE 0

GapsOf(i) ==
    CASE i = 1 -> <<JStr(Sentinel)>>
      [] i = 2 -> <<JStr("Needs SQL")>>
      [] i = 3 -> <<JStr(Sentinel), JStr("Needs SQL")>>
      [] i = 4 -> <<>>
      [] OTHER -> <<JStr("Needs SQL"), JStr(Sentinel)>>

(* A MatchResult record with the given job id, match_score and gaps. *)
MatchResultWith(i, score, gaps) ==
    JObj(<< <<"job", JObj(<< <<"id", JStr(ToString(i))>>, <<"title", JStr("Analyst")>> >>)>>,
            <<"match_score", JNum(score)>>,
            <<"why_matches", JArr(<<JStr("SQL")>>)>>,
            <<"gaps", JArr(gaps)>> >>)

MatchResult(i) == MatchResultWith(i, ScoreOf(i), GapsOf(i))

Injective(s) == \A i, j \in DOMAIN s : s[i] = s[j] => i = j

(* Result lists of at most n entries with distinct job ids. *)
IdLists(n) == {s \in UNION {[1..m -> 1..n] : m \in 0..n} : Injective(s)}
ResultList(ids) == JArr([i \in DOMAIN ids |-> MatchResult(ids[i])])

-----------------------------------------------------------------------------
(* sessionStorage slot "jobResults" *)

Absent == [present |-> FALSE, text |-> <<>>]
Slot(text) == [present |-> TRUE, text |-> text]

(* Values that are not lists of MatchResult records. *)
ForeignValues ==
    { JNull, JNum(7), JStr(""), JStr("x"), JObj(<<>>),
      JObj(<< <<"results", JArr(<<>>)>> >>),
      JArr(<<JNull>>), JArr(<<JNum(7)>>), JArr(<<JObj(<<>>)>>),
      JArr(<<JObj(<< <<"job", JObj(<<>>)>> >>)>>) }

(* Texts JSON.parse rejects: the empty string is handled before parsing. *)
MalformedTexts ==
    { <<Junk("undefined")>>, <<Junk("<html>")>>, <<Punct("[")>>,
      <<Punct("["), NumTok(7), Punct(",")>>, <<Punct("{"), StrTok("a")>>,
      <<Lit("null"), Lit("null")>> }

StorageInputs ==
    {Absent, Slot(<<>>)}
        \cup {Slot(t) : t \in MalformedTexts}
        \cup {Slot(Stringify(x)) : x \in ForeignValues}
        \cup {Slot(Stringify(ResultList(ids))) : ids \in IdLists(MaxResults)}

-----------------------------------------------------------------------------
(* Results view *)

(* The effect re-sorting what it read by descending match_score. *)
RECURSIVE InsertByScore(_, _)
InsertByScore(x, sorted) ==
    IF sorted = <<>> THEN <<x>>
    ELSE IF Get(x, "match_score").n > Get(sorted[1], "match_score").n
    THEN <<x>> \o sorted
    ELSE <<sorted[1]>> \o InsertByScore(x, Tail(sorted))

RECURSIVE SortByScore(_)
SortByScore(list) ==
    IF list = <<>> THEN <<>>
    ELSE InsertByScore(list[1], SortByScore(Tail(list)))

LoadResultsSorted(slot) ==
    IF slot.present /\ slot.text # <<>>
    THEN LET r == JSONParse(slot.text) IN
         IF r.ok
         THEN IF r.val.t = "arr" THEN JArr(SortByScore(r.val.a)) ELSE r.val
         ELSE JArr(<<>>)
    ELSE JArr(<<>>)

(* results/page.tsx useEffect: the value handed to setResults. *)
LoadResults(slot) ==
    IF slot.present /\ slot.text # <<>>
    THEN LET r == JSONParse(slot.text) IN IF r.ok THEN r.val ELSE JArr(<<>>)
    ELSE JArr(<<>>)

(* Whether rendering JobCard for this entry throws a TypeError: it reads    *)
(* result.job.id, result.why_matches.map and result.gaps.length, and calls  *)
(* result.gaps.map when the gaps condition holds (a non-empty string passes *)
(* the condition and has no map).                                           *)
JobCardThrows(result) ==
    \/ Nullish(result)
    \/ Nullish(Get(result, "job"))
    \/ Get(result, "why_matches").t # "arr"
    \/ Nullish(Get(result, "gaps"))
    \/ (Get(result, "gaps").t = "str" /\ Get(result, "gaps").s # "")

ClassGreen == "bg-green-100 text-green-800"
ClassBlue == "bg-blue-100 text-blue-800"
ClassYellow == "bg-yellow-100 text-yellow-800"
ClassRed == "bg-red-100 text-red-800"

(* A comparison of score with a number: false for a score that is not one. *)
ScoreAtLeast(score, n) == score.t = "num" /\ score.n >= n
ScoreBelow(score, n) == score.t = "num" /\ score.n < n

(* ScoreBadge with its last threshold off by one. *)
ScoreBadgeRedUpTo40(score) ==
    IF ScoreAtLeast(score, 80) THEN ClassGreen
    ELSE IF ScoreAtLeast(score, 60) THEN ClassBlue
    ELSE IF ScoreBelow(score, 41) THEN ClassRed
    ELSE ClassYellow

(* ScoreBadge: the colorClass of the badge. *)
ScoreBadge(score) ==
    IF ScoreAtLeast(score, 80) THEN ClassGreen
    ELSE IF ScoreAtLeast(score, 60) THEN ClassBlue
    ELSE IF ScoreBelow(score, 40) THEN ClassRed
    ELSE ClassYellow

(* JobCard's "Potential Gaps" block for a gaps value that is an array:      *)
(* whether it is rendered and, if so, its list items.                       *)
GapsSection(gaps) ==
    LET shown == /\ gaps.t = "arr" /\ Len(gaps.a) > 0
                 /\ ~(gaps.a[1].t = "str" /\ gaps.a[1].s = Sentinel)
    IN  [shown |-> shown, items |-> IF shown THEN gaps.a ELSE <<>>]

JobCard(result, rank) ==
    [result |-> result, rank |-> rank, isTopThree |-> rank <= 3,
     badge |-> ScoreBadge(Get(result, "match_score")),
     gaps |-> GapsSection(Get(result, "gaps"))]

(* Array.prototype.slice(from, to) with 0-based bounds. *)
Slice(s, from, to) ==
    SubSeq(s, from + 1, IF to < Len(s) THEN to ELSE Len(s))

(* ResultsList numbering the second group from its own index. *)
ResultsListGroupsRestartRank(list) ==
    LET top == Slice(list, 0, 3)
        rest == Slice(list, 3, Len(list))
    IN  [ top |-> [i \in DOMAIN top |-> JobCard(top[i], (i - 1) + 1)],
          hasOther |-> Len(list) > 3,
          other |-> IF Len(list) > 3
                    THEN [i \in DOMAIN rest |-> JobCard(rest[i], (i - 1) + 1)]
                    ELSE <<>> ]

(* ResultsList for a non-empty array: the two groups of cards. *)
ResultsListGroups(list) ==
    LET top == Slice(list, 0, 3)
        rest == Slice(list, 3, Len(list))
    IN  [ top |-> [i \in DOMAIN top |-> JobCard(top[i], (i - 1) + 1)],
          hasOther |-> Len(list) > 3,
          other |-> IF Len(list) > 3
                    THEN [i \in DOMAIN rest |-> JobCard(rest[i], (i - 1) + 4)]
                    ELSE <<>> ]

(* What ResultsList renders: "no-matches", "list", or "crash" when the      *)
(* render throws.                                                            *)
ResultsListRender(res) ==
    IF LengthIsZero(res) THEN "no-matches"
    ELSE IF res.t # "arr" THEN "crash"
    ELSE IF \E i \in DOMAIN res.a : JobCardThrows(res.a[i]) THEN "crash"
    ELSE "list"

(* What ResultsPage renders for its state. *)
ResultsPageRender(res, isLoadingView) ==
    IF isLoadingView THEN "loading"
    ELSE IF Nullish(res) THEN "crash"
    ELSE IF LengthIsZero(res) THEN "empty"
    ELSE ResultsListRender(res)

Display == IF route = "results" THEN ResultsPageRender(results, loading) ELSE "none"


-----------------------------------------------------------------------------
(* Submission form: data *)

NoError == ""      \* a key of FormErrors that is absent (undefined)

MsgFileType == "Please upload a PDF or DOCX file"
MsgNoResume == "Please paste your resume or upload a file"
MsgNoDescription == "Please describe your desired job"
MsgNoUrl == "Please enter a company jobs URL"
MsgUnsupportedUrl == "Currently only Greenhouse, Lever, and Workday URLs are supported"
MsgInvalidUrl == "Please enter a valid URL"
MsgFailed == "Failed to get recommendations"
MsgGeneric == "An error occurred. Please try again."

(* Messages of errors the runtime throws; their wording is the engine's. *)
MsgSyntaxError == "SyntaxError: Unexpected token in JSON"
MsgTypeError == "TypeError: Cannot read properties of null"
MsgFetchFailed == "TypeError: Failed to fetch"

NoErrors ==
    [resume |-> NoError, desiredJobDescription |-> NoError,
     companyJobsUrl |-> NoError, submit |-> NoError]

PdfType == "application/pdf"
DocxType == "application/vnd.openxmlformats-officedocument.wordprocessingml.document"

File(name, type, bytes) == [name |-> name, type |-> type, bytes |-> bytes]

(* Files the user can pick; the accept attribute is only a hint to the picker. *)
FileInputs ==
    { File("cv.pdf", PdfType, "PDF"), File("cv.docx", DocxType, "DOC"),
      File("cv.txt", "text/plain", "TXT") }

NoFile == <<>>     \* resumeFile: null

InitialFormData ==
    [resumeText |-> "", resumeFile |-> NoFile,
     desiredJobDescription |-> <<>>, companyJobsUrl |-> <<>>]

(* String.prototype.trim on a string given as its characters. *)
RECURSIVE TrimStart(_)
TrimStart(s) == IF s # <<>> /\ s[1] = " " THEN TrimStart(Tail(s)) ELSE s

RECURSIVE TrimEnd(_)
TrimEnd(s) ==
    IF s # <<>> /\ s[Len(s)] = " " THEN TrimEnd(SubSeq(s, 1, Len(s) - 1)) ELSE s

Trim(s) == TrimEnd(TrimStart(s))

(* new URL(input) for an input given as its lexical pieces: the scheme      *)
(* piece "https://", host words, "/" and spaces.  The parser strips the      *)
(* surrounding spaces, throws without a leading scheme, skips further        *)
(* slashes before the host, reads the host up to the next "/" or ":" (a      *)
(* later scheme piece contributes the host word "https" and ends the host),  *)
(* and throws for an empty host or a space in the host.                      *)
Scheme == "https://"
HostPieces == {"greenhouse.io", "lever.co", "myworkdayjobs.com", "example.com"}
UrlPieces == {Scheme, "/", " "} \cup HostPieces

RECURSIVE SkipSlashes(_)
SkipSlashes(s) == IF s # <<>> /\ s[1] = "/" THEN SkipSlashes(Tail(s)) ELSE s

RECURSIVE HostOf(_)
HostOf(s) ==
    IF s = <<>> \/ s[1] = "/" THEN <<>>
    ELSE IF s[1] = Scheme THEN <<"https">>
    ELSE <<s[1]>> \o HostOf(Tail(s))

UrlThrows == [ok |-> FALSE, hostname |-> <<>>]

ParseUrl(input) ==
    LET s == Trim(input) IN
    IF s = <<>> \/ s[1] # Scheme THEN UrlThrows
    ELSE LET host == HostOf(SkipSlashes(Tail(s))) IN
         IF host = <<>> \/ \E i \in DOMAIN host : host[i] = " "
         THEN UrlThrows
         ELSE [ok |-> TRUE, hostname |-> host]

(* hostname.includes(word) *)
Includes(hostname, word) == \E i \in DOMAIN hostname : hostname[i] = word


(* validateForm returning at its first failed rule. *)
ValidateFormFirstError(fd) ==
    IF fd.resumeText = "" /\ fd.resumeFile = NoFile
    THEN [NoErrors EXCEPT !.resume = MsgNoResume]
    ELSE IF Trim(fd.desiredJobDescription) = <<>>
    THEN [NoErrors EXCEPT !.desiredJobDescription = MsgNoDescription]
    ELSE IF Trim(fd.companyJobsUrl) = <<>>
    THEN [NoErrors EXCEPT !.companyJobsUrl = MsgNoUrl]
    ELSE LET u == ParseUrl(fd.companyJobsUrl) IN
         IF ~u.ok THEN [NoErrors EXCEPT !.companyJobsUrl = MsgInvalidUrl]
         ELSE IF \/ Includes(u.hostname, "greenhouse.io")
                 \/ Includes(u.hostname, "lever.co")
                 \/ Includes(u.hostname, "myworkdayjobs.com")
              THEN NoErrors
              ELSE [NoErrors EXCEPT !.companyJobsUrl = MsgUnsupportedUrl]

(* validateForm: the FormErrors object it hands to setErrors. *)
ValidateForm(fd) ==
    LET resume == IF fd.resumeText = "" /\ fd.resumeFile = NoFile
                  THEN MsgNoResume ELSE NoError
        description == IF Trim(fd.desiredJobDescription) = <<>>
                       THEN MsgNoDescription ELSE NoError
        url == IF Trim(fd.companyJobsUrl) = <<>> THEN MsgNoUrl
               ELSE LET u == ParseUrl(fd.companyJobsUrl) IN
                    IF ~u.ok THEN MsgInvalidUrl
                    ELSE IF \/ Includes(u.hostname, "greenhouse.io")
                            \/ Includes(u.hostname, "lever.co")
                            \/ Includes(u.hostname, "myworkdayjobs.com")
                         THEN NoError
                         ELSE MsgUnsupportedUrl
    IN  [resume |-> resume, desiredJobDescription |-> description,
         companyJobsUrl |-> url, submit |-> NoError]

(* Object.keys(newErrors).length === 0 *)
IsValid(newErrors) == newErrors = NoErrors

(* handleFileChange resetting the selection when it rejects a file. *)
HandleFileChangeDropsFile(fd, errs, file) ==
    IF file.type \notin {PdfType, DocxType}
    THEN [formData |-> [fd EXCEPT !.resumeFile = NoFile],
          errors |-> [errs EXCEPT !.resume = MsgFileType]]
    ELSE [formData |-> [fd EXCEPT !.resumeFile = <<file>>, !.resumeText = ""],
          errors |-> [errs EXCEPT !.resume = NoError]]

(* handleFileChange for a chosen file: the next formData and errors. *)
HandleFileChange(fd, errs, file) ==
    IF file.type \notin {PdfType, DocxType}
    THEN [formData |-> fd, errors |-> [errs EXCEPT !.resume = MsgFileType]]
    ELSE [formData |-> [fd EXCEPT !.resumeFile = <<file>>, !.resumeText = ""],
          errors |-> [errs EXCEPT !.resume = NoError]]

(* The "Paste Text" button leaving the selected file in place. *)
PasteClickKeepsFile(fd) == fd

(* onClick of the "Paste Text" button. *)
PasteClick(fd) == [fd EXCEPT !.resumeFile = NoFile]

(* The "Upload File" button leaving the pasted text in place. *)
UploadClickKeepsText(fd) == fd

(* onClick of the "Upload File" button. *)
UploadClick(fd) == [fd EXCEPT !.resumeText = ""]

(* fileToBase64: reader.result.split(",")[1] of the file's data URL. *)
Base64(bytes) ==
    CASE bytes = "PDF" -> "UERG"
      [] bytes = "DOC" -> "RE9D"
      [] bytes = "TXT" -> "VFhU"

ReadAsDataURL(file) == <<"data:" \o file.type \o ";base64", Base64(file.bytes)>>

FileToBase64(file) == ReadAsDataURL(file)[2]

(* handleSubmit: requestBody before the resume is added. *)
RequestBase(fd) ==
    << <<"desired_job_description", fd.desiredJobDescription>>,
       <<"company_jobs_url", fd.companyJobsUrl>> >>

Keys(body) == {body[i][1] : i \in DOMAIN body}

-----------------------------------------------------------------------------
(* Responses of the matching endpoint *)

NetworkError == [kind |-> "network", ok |-> FALSE, body |-> <<>>]
Http(ok, body) == [kind |-> "http", ok |-> ok, body |-> body]

Detail(message) == JObj(<< <<"detail", JObj(<< <<"message", message>> >>)>> >>)

ErrorBodies ==
    { Stringify(Detail(JStr("No jobs found at this URL"))),
      Stringify(JObj(<< <<"detail", JStr("Not Found")>> >>)),
      Stringify(JNull),
      <<Junk("<html>")>> }

(* Result lists a success response carries in the main specification. *)
ResponseIdLists == { <<>>, <<3, 1, 5, 2, 4>> }

WithResults(x) == Stringify(JObj(<< <<"results", x>> >>))

SuccessBodies ==
    {WithResults(ResultList(ids)) : ids \in ResponseIdLists}
        \cup { Stringify(JObj(<<>>)), <<Junk("<html>")>> }

Responses ==
    {NetworkError} \cup {Http(FALSE, b) : b \in ErrorBodies}
                   \cup {Http(TRUE, b) : b \in SuccessBodies}

(* JavaScript truthiness. *)
Truthy(x) ==
    CASE x.t \in {"null", "undef"} -> FALSE
      [] x.t = "str" -> x.s # ""
      [] x.t = "num" -> x.n # 0
      [] OTHER -> TRUE

(* new Error(x).message for a truthy x. *)
ErrorMessage(x) == IF x.t = "str" THEN x.s ELSE "[object Object]"

Thrown(message) == [ok |-> FALSE, message |-> message, text |-> <<>>]

(* handleSubmit from the fetch to the end of the try block: either the text  *)
(* written to the slot before router.push, or the message the catch block    *)
(* hands to setErrors.                                                       *)
HandleResponse(resp) ==
    IF resp.kind = "network" THEN Thrown(MsgFetchFailed)
    ELSE LET parsed == JSONParse(resp.body) IN
         IF ~resp.ok THEN
             IF ~parsed.ok THEN Thrown(MsgSyntaxError)
             ELSE IF Nullish(parsed.val) THEN Thrown(MsgTypeError)
             ELSE LET detail == Get(parsed.val, "detail")
                      message == IF Nullish(detail) THEN JUndef
                                 ELSE Get(detail, "message")
                  IN  IF Truthy(message) THEN Thrown(ErrorMessage(message))
                      ELSE Thrown(MsgFailed)
         ELSE
             IF ~parsed.ok THEN Thrown(MsgSyntaxError)
             ELSE IF Nullish(parsed.val) THEN Thrown(MsgTypeError)
             ELSE [ok |-> TRUE, message |-> NoError,
                   text |-> StoredText(Get(parsed.val, "results"))]


-----------------------------------------------------------------------------
(* State machine *)

TextInputs == {"", "Jane Doe, data analyst"}
DescInputs == {<<>>, <<"d">>}
UrlInputs == {<<>>, <<Scheme, "greenhouse.io", "/">>, <<Scheme, "example.com">>}

Init ==
    /\ formData = InitialFormData
    /\ errors = NoErrors
    /\ isLoading = FALSE
    /\ inputMode = "paste"
    /\ inst = 1
    /\ handlers = <<>>
    /\ route = "form"
    /\ storage = Absent
    /\ results = JArr(<<>>)
    /\ loading = TRUE

(* A page component that mounts starts from its useState initial values;     *)
(* the state of one that is not mounted is kept at those values.             *)
FreshForm ==
    /\ formData' = InitialFormData
    /\ errors' = NoErrors
    /\ isLoading' = FALSE
    /\ inputMode' = "paste"

FreshResultsView ==
    /\ results' = JArr(<<>>)
    /\ loading' = TRUE

Remove(s, k) == SubSeq(s, 1, k - 1) \o SubSeq(s, k + 1, Len(s))

(* The form instance that started handler h is still the mounted one, so     *)
(* its state setters take effect.                                            *)
Mounted(h) == route = "form" /\ h.inst = inst

(* A submit button that is never disabled. *)
SubmitAlwaysEnabled == TRUE

(* The submit button is rendered with disabled={isLoading}. *)
SubmitEnabled == ~isLoading

(* Textarea onChange, rendered in paste mode only. *)
EditResumeText(v) ==
    /\ route = "form" /\ inputMode = "paste"
    /\ formData' = [formData EXCEPT !.resumeText = v]
    /\ UNCHANGED <<errors, isLoading, inputMode, inst, handlers, viewVars>>

EditDescription(v) ==
    /\ route = "form"
    /\ formData' = [formData EXCEPT !.desiredJobDescription = v]
    /\ UNCHANGED <<errors, isLoading, inputMode, inst, handlers, viewVars>>

EditUrl(v) ==
    /\ route = "form"
    /\ formData' = [formData EXCEPT !.companyJobsUrl = v]
    /\ UNCHANGED <<errors, isLoading, inputMode, inst, handlers, viewVars>>

SwitchToPaste ==
    /\ route = "form"
    /\ inputMode' = "paste"
    /\ formData' = PasteClick(formData)
    /\ UNCHANGED <<errors, isLoading, inst, handlers, viewVars>>

SwitchToUpload ==
    /\ route = "form"
    /\ inputMode' = "upload"
    /\ formData' = UploadClick(formData)
    /\ UNCHANGED <<errors, isLoading, inst, handlers, viewVars>>

(* File input onChange, rendered in upload mode only. *)
SelectFile(file) ==
    /\ route = "form" /\ inputMode = "upload"
    /\ LET next == HandleFileChange(formData, errors, file) IN
        /\ formData' = next.formData
        /\ errors' = next.errors
    /\ UNCHANGED <<isLoading, inputMode, inst, handlers, viewVars>>

(* handleSubmit up to its first await. *)
Submit ==
    /\ route = "form" /\ SubmitEnabled
    /\ LET newErrors == ValidateForm(formData) IN
       IF ~IsValid(newErrors)
       THEN /\ errors' = newErrors
            /\ UNCHANGED <<isLoading, handlers>>
       ELSE /\ isLoading' = TRUE
            /\ errors' = NoErrors
            /\ handlers' = Append(handlers,
                 IF formData.resumeFile # NoFile
                 THEN [inst |-> inst, stage |-> "encoding", calls |-> 0,
                       file |-> formData.resumeFile, body |-> RequestBase(formData)]
                 ELSE [inst |-> inst, stage |-> "fetching", calls |-> 1,
                       file |-> NoFile,
                       body |-> Append(RequestBase(formData),
                                       <<"resume_text", formData.resumeText>>)])
    /\ UNCHANGED <<formData, inputMode, inst, viewVars>>

(* reader.onload: fileToBase64 resolves and the request is sent. *)
EncodeDone(k) ==
    /\ k \in DOMAIN handlers /\ handlers[k].stage = "encoding"
    /\ handlers' = [handlers EXCEPT
           ![k].stage = "fetching",
           ![k].calls = @ + 1,
           ![k].body = Append(@, <<"resume_file_base64",
                                   FileToBase64(handlers[k].file[1])>>)]
    /\ UNCHANGED <<formVars, inst, viewVars>>

(* handleSubmit without its finally block. *)
FailKeepsLoading(h, message) ==
    IF Mounted(h)
    THEN /\ errors' = [NoErrors EXCEPT !.submit = message]
         /\ UNCHANGED <<formData, isLoading, inputMode>>
    ELSE UNCHANGED formVars

(* The catch and finally blocks of handleSubmit. *)
Fail(h, message) ==
    IF Mounted(h)
    THEN /\ errors' = [NoErrors EXCEPT !.submit = message]
         /\ isLoading' = FALSE
         /\ UNCHANGED <<formData, inputMode>>
    ELSE UNCHANGED formVars

(* reader.onerror: fileToBase64 rejects with the reader's event. *)
EncodeFail(k) ==
    /\ k \in DOMAIN handlers /\ handlers[k].stage = "encoding"
    /\ handlers' = Remove(handlers, k)
    /\ Fail(handlers[k], MsgGeneric)
    /\ UNCHANGED <<inst, viewVars>>

(* HandleResponse tabulated over the responses the model draws. *)
Outcomes == [resp \in Responses |-> HandleResponse(resp)] @@ <<>>

OutcomeOf(resp) == Outcomes[resp]

(* The fetch settles with resp and handleSubmit runs to its end. *)
Response(k, resp) ==
    /\ k \in DOMAIN handlers /\ handlers[k].stage = "fetching"
    /\ handlers' = Remove(handlers, k)
    /\ LET out == OutcomeOf(resp) IN
       IF ~out.ok
       THEN /\ Fail(handlers[k], out.message)
            /\ UNCHANGED <<inst, viewVars>>
       ELSE /\ storage' = Slot(out.text)
            /\ route' = "results"
            /\ IF route = "form"
               THEN FreshForm /\ FreshResultsView
               ELSE UNCHANGED <<formVars, results, loading>>
            /\ UNCHANGED inst

(* results/page.tsx useEffect, run once after the view mounts. *)
ResultsEffect ==
    /\ route = "results" /\ loading
    /\ results' = LoadResults(storage)
    /\ loading' = FALSE
    /\ UNCHANGED <<formVars, inst, handlers, route, storage>>

(* The results view's link back to "/": a new form instance mounts. *)
NewSearch ==
    /\ route = "results" /\ inst < MaxInstances
    /\ route' = "form"
    /\ inst' = inst + 1
    /\ FreshForm /\ FreshResultsView
    /\ UNCHANGED <<handlers, storage>>

(* The user leaves the form for the results view through the browser's       *)
(* history; suspended handlers of the form keep running.                     *)
NavigateAway ==
    /\ route = "form"
    /\ route' = "results"
    /\ FreshForm /\ FreshResultsView
    /\ UNCHANGED <<inst, handlers, storage>>

Next ==
    \/ \E v \in TextInputs : EditResumeText(v)
    \/ \E v \in DescInputs : EditDescription(v)
    \/ \E v \in UrlInputs : EditUrl(v)
    \/ SwitchToPaste
    \/ SwitchToUpload
    \/ \E f \in FileInputs : SelectFile(f)
    \/ Submit
    \/ \E k \in DOMAIN handlers : EncodeDone(k)
    \/ \E k \in DOMAIN handlers : EncodeFail(k)
    \/ \E k \in DOMAIN handlers, resp \in Responses : Response(k, resp)
    \/ ResultsEffect
    \/ NewSearch
    \/ NavigateAway

Spec == Init /\ [][Next]_vars


-----------------------------------------------------------------------------
(* validateForm over a wide range of form contents: the form holds any      *)
(* resume, description and URL the user can have entered, and submits.      *)

Seqs(S, n) == UNION {[1..m -> S] : m \in 0..n}

ResumeInputs ==
    { <<"", NoFile>>, <<"Jane Doe, data analyst", NoFile>>,
      <<"", <<File("cv.pdf", PdfType, "PDF")>> >> }

InitValidate ==
    /\ \E r \in ResumeInputs, d \in Seqs({" ", "d"}, MaxDescLen),
          u \in Seqs(UrlPieces, MaxUrlLen) :
          /\ formData = [resumeText |-> r[1], resumeFile |-> r[2],
                         desiredJobDescription |-> d, companyJobsUrl |-> u]
          /\ inputMode = IF r[2] = NoFile THEN "paste" ELSE "upload"
    /\ errors = NoErrors
    /\ isLoading = FALSE
    /\ inst = 1
    /\ handlers = <<>>
    /\ route = "form"
    /\ storage = Absent
    /\ results = JArr(<<>>)
    /\ loading = TRUE

SpecValidate == InitValidate /\ [][Submit]_vars

(* The results view opened on any content of the storage slot.              *)

InitResults ==
    /\ formData = InitialFormData
    /\ errors = NoErrors
    /\ isLoading = FALSE
    /\ inputMode = "paste"
    /\ inst = 1
    /\ handlers = <<>>
    /\ route = "results"
    /\ storage \in StorageInputs
    /\ results = JArr(<<>>)
    /\ loading = TRUE

SpecResults == InitResults /\ [][ResultsEffect]_vars

(* The results view opened on one stored result of any score and gaps list. *)

Scores == 0..100
GapInputs == {JStr(Sentinel), JStr("Needs SQL"), JStr("No Go experience")}

(* Gaps lists that name each gap once. *)
GapsLists == {g \in Seqs(GapInputs, MaxGapsLen) : Injective(g)}

InitCards ==
    /\ formData = InitialFormData
    /\ errors = NoErrors
    /\ isLoading = FALSE
    /\ inputMode = "paste"
    /\ inst = 1
    /\ handlers = <<>>
    /\ route = "results"
    /\ \E score \in Scores, gaps \in GapsLists :
          storage = Slot(Stringify(JArr(<<MatchResultWith(1, score, gaps)>>)))
    /\ results = JArr(<<>>)
    /\ loading = TRUE

SpecCards == InitCards /\ [][ResultsEffect]_vars


-----------------------------------------------------------------------------
(* Properties *)

Min(a, b) == IF a < b THEN a ELSE b

(* The slot holds the serialization of a list of MatchResult records. *)
StoresResultList ==
    /\ storage.present
    /\ LET r == JSONParse(storage.text) IN
          /\ r.ok
          /\ r.val.t = "arr"
          /\ \A i \in DOMAIN r.val.a : \E id \in 1..MaxResults : r.val.a[i] = MatchResult(id)
          /\ Injective(r.val.a)

(* C1: whatever the slot "jobResults" holds that is not a list of           *)
(* MatchResult records (nothing, text that is not JSON, or JSON of another  *)
(* shape), the results view, once loaded, shows the empty state and never   *)
(* an error.                                                                *)
C1_EmptyStateForForeignStorage ==
    (route = "results" /\ ~loading /\ ~StoresResultList) => Display = "empty"

(* C10: for a stored list of N >= 1 entries the view gives rank i to the    *)
(* i-th stored entry; the entries of ranks 1..min(3, N) form the top group  *)
(* and are the ones flagged top-tier, the others follow in the second group *)
(* from rank 4, and the second group exists only when N > 3.                *)
C10_RanksInStoredOrder ==
    (Display = "list" /\ StoresResultList) =>
        LET stored == JSONParse(storage.text).val.a
            N == Len(stored)
            g == ResultsListGroups(results.a)
            cards == g.top \o g.other
        IN  /\ N >= 1
            /\ Len(cards) = N
            /\ \A i \in 1..N :
                  /\ cards[i].rank = i
                  /\ cards[i].result = stored[i]
                  /\ cards[i].isTopThree <=> i <= Min(3, N)
            /\ Len(g.top) = Min(3, N)
            /\ \A i \in DOMAIN g.other : g.other[i].rank = i + 3
            /\ g.hasOther <=> N > 3
            /\ g.other # <<>> <=> N > 3

C10_Witness ==
    /\ Display = "list"
    /\ StoresResultList
    /\ Len(results.a) = 5
    /\ Len(ResultsListGroups(results.a).top) = 3
    /\ Len(ResultsListGroups(results.a).other) = 2

(* The one card the view shows, and the stored result it was made from. *)
ShownCard == ResultsListGroups(results.a).top[1]
StoredResult == JSONParse(storage.text).val.a[1]

(* C11: a result whose gaps list is exactly [Sentinel] renders no gaps     *)
(* section; every other non-empty gaps list, also one that starts with the  *)
(* sentinel and goes on, or holds it at a later position, renders in full,  *)
(* its items in the list's order.                                           *)
C11_OnlySentinelAloneHidden ==
    Display = "list" =>
        LET gaps == Get(StoredResult, "gaps").a
            section == ShownCard.gaps
        IN  /\ gaps = <<JStr(Sentinel)>> => ~section.shown
            /\ (gaps # <<>> /\ gaps # <<JStr(Sentinel)>>) =>
                  (section.shown /\ section.items = gaps)

(* The tier of a score, in the claim's words, and each tier's badge. *)
TierOf(score) ==
    CASE score >= 80 -> "top"
      [] 60 <= score /\ score < 80 -> "second"
      [] 40 <= score /\ score < 60 -> "third"
      [] score < 40 -> "lowest"

TierClass ==
    [top |-> ClassGreen, second |-> ClassBlue, third |-> ClassYellow,
     lowest |-> ClassRed]

(* C12: every integer score 0..100 falls in exactly one of the four ranges  *)
(* >= 80, 60..79, 40..59, < 40, and the badge shown for it is that range's  *)
(* tier and no other tier's.                                                *)
C12_ScoreTierTotal ==
    Display = "list" =>
        LET score == Get(StoredResult, "match_score").n IN
        /\ score \in 0..100
        /\ Cardinality({r \in 1..4 :
               <<score >= 80, 60 <= score /\ score < 80,
                 40 <= score /\ score < 60, score < 40>>[r]}) = 1
        /\ ShownCard.badge = TierClass[TierOf(score)]
        /\ \A t \in DOMAIN TierClass :
              t # TierOf(score) => ShownCard.badge # TierClass[t]
        /\ score = 80 => ShownCard.badge = ClassGreen
        /\ score \in {79, 60} => ShownCard.badge = ClassBlue
        /\ score \in {59, 40} => ShownCard.badge = ClassYellow
        /\ score = 39 => ShownCard.badge = ClassRed

C12_Witness ==
    /\ Display = "list"
    /\ Get(StoredResult, "match_score") = JNum(40)
    /\ ShownCard.badge = ClassYellow

(* What the three rules of validate() say, in the claim's words. *)
ResumeRuleFires(fd) == fd.resumeText = "" /\ fd.resumeFile = NoFile

DescriptionRuleFires(fd) ==
    \A i \in DOMAIN fd.desiredJobDescription : fd.desiredJobDescription[i] = " "

UrlRuleFires(fd) ==
    \/ fd.companyJobsUrl = <<>>
    \/ ~ParseUrl(fd.companyJobsUrl).ok
    \/ /\ ParseUrl(fd.companyJobsUrl).ok
       /\ \A w \in {"greenhouse.io", "lever.co", "myworkdayjobs.com"} :
             ~Includes(ParseUrl(fd.companyJobsUrl).hostname, w)

(* C6: a submit reports a resume error exactly when text and file are both  *)
(* absent, a description error exactly when the description is blank, a URL *)
(* error exactly when the URL is empty, unparseable or on no allow-listed   *)
(* host, all together; and it goes on to submit exactly when no rule fires. *)
C6_ValidateRulesIndependent ==
    [][Submit =>
         /\ errors'.resume # NoError <=> ResumeRuleFires(formData)
         /\ errors'.desiredJobDescription # NoError <=> DescriptionRuleFires(formData)
         /\ errors'.companyJobsUrl # NoError <=> UrlRuleFires(formData)
         /\ isLoading' <=> ~(\/ ResumeRuleFires(formData)
                             \/ DescriptionRuleFires(formData)
                             \/ UrlRuleFires(formData))
         /\ errors' = NoErrors <=> ~(\/ ResumeRuleFires(formData)
                                     \/ DescriptionRuleFires(formData)
                                     \/ UrlRuleFires(formData))
      ]_vars

C6_Witness ==
    /\ errors.resume = MsgNoResume
    /\ errors.desiredJobDescription = MsgNoDescription
    /\ errors.companyJobsUrl = MsgUnsupportedUrl
    /\ Includes(formData.companyJobsUrl, "greenhouse.io")


(* Handlers started by form instance i. *)
HandlersOf(i) == {k \in DOMAIN handlers : handlers[k].inst = i}

(* Requests of form instance i that are in flight. *)
InFlight(i) == {k \in HandlersOf(i) : handlers[k].stage = "fetching"}

(* C2: a form instance never has more than one request in flight, nor more  *)
(* than one submission in progress, and while the mounted instance has one  *)
(* it is Submitting (isLoading), which disables the submit button.          *)
C2_AtMostOneInFlight ==
    /\ \A i \in 1..inst : Cardinality(InFlight(i)) <= 1
    /\ \A i \in 1..inst : Cardinality(HandlersOf(i)) <= 1
    /\ (route = "form" /\ HandlersOf(inst) # {}) => isLoading

C2_Witness ==
    /\ route = "form" /\ isLoading
    /\ \E k \in InFlight(inst) :
          /\ handlers[k].body[3] = <<"resume_text", "Jane Doe, data analyst">>
          /\ formData.resumeText = ""
          /\ inputMode = "upload"

(* The step ends handleSubmit call k: its file read fails (EncodeFail) or   *)
(* its fetch settles (Response); no other action removes a handler.         *)
Completes(k) == handlers' = Remove(handlers, k)

(* Network calls issued so far by the suspended handlers. *)
RECURSIVE SumCalls(_)
SumCalls(hs) == IF hs = <<>> THEN 0 ELSE hs[1].calls + SumCalls(Tail(hs))

(* A submit that fails validation stays Idle and starts nothing. *)
C3_InvalidStaysIdle ==
    (Submit /\ ~IsValid(ValidateForm(formData))) =>
        /\ handlers' = handlers
        /\ ~isLoading'
        /\ route' = "form"

(* A submit that passes validation enters Submitting. *)
C3_ValidEntersSubmitting ==
    (Submit /\ IsValid(ValidateForm(formData))) =>
        /\ isLoading'
        /\ Len(handlers') = Len(handlers) + 1
        /\ handlers'[Len(handlers')].inst = inst

(* Leaving Submitting: Idle with a submission error, or navigated away. *)
C3_LeavesToOneOutcome(k) ==
    Mounted(handlers[k]) =>
        /\ ~isLoading'
        /\ (route' = "form" /\ errors'.submit # NoError)
              # (route' = "results" /\ errors'.submit = NoError)

(* A network call is only ever issued by a submit action, at once or when   *)
(* its file has been read, and a handler never issues a second one.         *)
C3_NoCallWithoutSubmit ==
    /\ \A k \in DOMAIN handlers' : handlers'[k].calls <= 1
    /\ Len(handlers') > Len(handlers) => Submit
    /\ SumCalls(handlers') > SumCalls(handlers) =>
          (Submit \/ \E k \in DOMAIN handlers : EncodeDone(k))

(* C3 as claimed: Idle -> Submitting -> {Idle-with-error, NavigatedAway},   *)
(* where every submit that passes validation has issued exactly one network *)
(* call when it leaves Submitting.                                          *)
C3_ExactlyOneCallPerSubmit ==
    [][ /\ C3_InvalidStaysIdle
        /\ C3_ValidEntersSubmitting
        /\ C3_NoCallWithoutSubmit
        /\ \A k \in DOMAIN handlers :
              Completes(k) =>
                  /\ C3_LeavesToOneOutcome(k)
                  /\ handlers[k].calls = 1
      ]_vars

(* C3 as amended: a submit that passes validation issues exactly one        *)
(* network call, except that when the selected file cannot be read it       *)
(* issues none and goes to Idle-with-error with the generic message.        *)
C3_OneCallUnlessFileReadFails ==
    [][ /\ C3_InvalidStaysIdle
        /\ C3_ValidEntersSubmitting
        /\ C3_NoCallWithoutSubmit
        /\ \A k \in DOMAIN handlers :
              Completes(k) =>
                  /\ C3_LeavesToOneOutcome(k)
                  /\ IF handlers[k].stage = "encoding"
                     THEN /\ handlers[k].calls = 0
                          /\ handlers[k].file # NoFile
                          /\ Mounted(handlers[k]) =>
                                (errors'.submit = MsgGeneric /\ route' = "form")
                     ELSE handlers[k].calls = 1
      ]_vars

C3_Witness ==
    /\ route = "form" /\ ~isLoading
    /\ errors.submit = MsgGeneric
    /\ formData.resumeFile # NoFile
    /\ HandlersOf(inst) = {}


(* The response is a failure: no response at all, or a non-success status. *)
IsFailure(resp) == resp.kind = "network" \/ ~resp.ok

(* The body of a non-success response has a non-empty detail.message. *)
HasDetailMessage(resp) ==
    /\ resp.kind = "http"
    /\ JSONParse(resp.body).ok
    /\ Get(Get(JSONParse(resp.body).val, "detail"), "message").t = "str"
    /\ Get(Get(JSONParse(resp.body).val, "detail"), "message").s # ""

DetailMessage(resp) == Get(Get(JSONParse(resp.body).val, "detail"), "message").s

(* The form's own fallback messages. *)
GenericMessages == {MsgFailed, MsgGeneric}

(* What counts as generic when no response arrived: a fallback message, or  *)
(* the runtime's wording for a failed fetch, which names no server detail.  *)
GenericNetworkMessages == GenericMessages \cup {MsgFetchFailed}

(* C4: after a failed submission the form shows detail.message when the     *)
(* response body has one, and a generic message when the body lacks it or   *)
(* cannot be parsed or when no response arrived; the fields keep their      *)
(* values and the form is idle again, ready to be resubmitted.              *)
C4_FailureMessage ==
    [][ \A k \in DOMAIN handlers, resp \in Responses :
          (Response(k, resp) /\ Mounted(handlers[k]) /\ IsFailure(resp)) =>
              /\ IF resp.kind = "network"
                 THEN errors'.submit \in GenericNetworkMessages
                 ELSE IF HasDetailMessage(resp)
                 THEN errors'.submit = DetailMessage(resp)
                 ELSE errors'.submit \in GenericMessages
              /\ formData' = formData
              /\ ~isLoading'
              /\ route' = "form"
      ]_vars

(* A success response carrying the list of the given ids, the text its     *)
(* list serializes to, and the list.                                        *)
SuccessCases ==
    { [ids |-> ids,
       resp |-> Http(TRUE, WithResults(ResultList(ids))),
       slot |-> Slot(Stringify(ResultList(ids))),
       list |-> ResultList(ids)] : ids \in ResponseIdLists }

(* C5: a success response carrying the result list R writes the             *)
(* serialization of R to the slot in the step that navigates to the results *)
(* view, and a results view that then loads that slot holds exactly R, its  *)
(* entries in the response's order.                                         *)
C5_StoredThenRead ==
    [][ /\ \A k \in DOMAIN handlers, c \in SuccessCases :
              Response(k, c.resp) =>
                  /\ storage' = c.slot
                  /\ route' = "results"
                  /\ route = "form" => loading'
        /\ \A c \in SuccessCases :
              (storage = c.slot /\ ResultsEffect) =>
                  /\ results' = c.list
                  /\ Len(results'.a) = Len(c.ids)
                  /\ \A i \in DOMAIN c.ids :
                        Get(Get(results'.a[i], "job"), "id") = JStr(ToString(c.ids[i]))
      ]_vars

C5_Witness ==
    /\ Display = "list"
    /\ storage = Slot(Stringify(ResultList(<<3, 1, 5, 2, 4>>)))
    /\ results = ResultList(<<3, 1, 5, 2, 4>>)
    /\ LET g == ResultsListGroups(results.a) IN
          /\ [i \in DOMAIN g.top |-> g.top[i].result] =
                ResultList(<<3, 1, 5>>).a
          /\ [i \in DOMAIN g.other |-> g.other[i].result] =
                ResultList(<<2, 4>>).a

(* C13: navigating away from the form while a request is in flight does    *)
(* not abort the request, and a response that arrives after the form that   *)
(* sent it is gone is not acted upon: it neither writes the slot            *)
(* "jobResults" nor navigates to the results view.                          *)
C13_LateResponseIgnored ==
    [][ /\ NavigateAway => handlers' = handlers
        /\ \A k \in DOMAIN handlers :
              (Completes(k) /\ handlers[k].stage = "fetching"
                  /\ ~Mounted(handlers[k])) =>
                  /\ storage' = storage
                  /\ route' = route
      ]_vars

ResumeKeys(body) == Keys(body) \cap {"resume_text", "resume_file_base64"}

(* C7: resumeText and resumeFile are never both supplied; every submission  *)
(* in progress was made with exactly one of them, and every request sent    *)
(* carries desired_job_description, company_jobs_url and exactly one of     *)
(* resume_text / resume_file_base64, the file key exactly when a file was   *)
(* selected.                                                                *)
C7_ExactlyOneResume ==
    /\ ~(formData.resumeText # "" /\ formData.resumeFile # NoFile)
    /\ \A k \in DOMAIN handlers :
          LET h == handlers[k] IN
          /\ {"desired_job_description", "company_jobs_url"} \subseteq Keys(h.body)
          /\ h.stage = "encoding" => (h.file # NoFile /\ ResumeKeys(h.body) = {})
          /\ h.stage = "fetching" =>
                /\ Len(h.body) = 3
                /\ Cardinality(ResumeKeys(h.body)) = 1
                /\ "resume_file_base64" \in Keys(h.body) <=> h.file # NoFile
                /\ "resume_text" \in Keys(h.body) => h.body[3][2] # ""

C7_Witness ==
    \E k \in DOMAIN handlers :
        /\ handlers[k].stage = "fetching"
        /\ handlers[k].body[3] = <<"resume_file_base64", "RE9D">>
        /\ inputMode = "paste"
        /\ formData.resumeText # ""

(* C8: choosing a file whose type is neither PDF nor DOCX leaves formData   *)
(* as it was and sets the resume field error.                               *)
C8_RejectedFileKeepsState ==
    [][ \A f \in FileInputs :
          (SelectFile(f) /\ f.type # PdfType /\ f.type # DocxType) =>
              /\ formData' = formData
              /\ errors'.resume = MsgFileType
      ]_vars

C8_Witness ==
    /\ errors.resume = MsgFileType
    /\ formData.resumeFile # NoFile

(* C9: switching to upload clears resumeText and switching to paste clears  *)
(* resumeFile; doing the same switch again changes nothing; the mode flag   *)
(* is always paste or upload.                                               *)
C9_SwitchClearsAndIsIdempotent ==
    [][ /\ SwitchToUpload =>
              /\ formData'.resumeText = ""
              /\ inputMode' = "upload"
              /\ UploadClick(formData') = formData'
        /\ SwitchToPaste =>
              /\ formData'.resumeFile = NoFile
              /\ inputMode' = "paste"
              /\ PasteClick(formData') = formData'
        /\ inputMode \in {"paste", "upload"}
        /\ inputMode' \in {"paste", "upload"}
      ]_vars

C9_Witness ==
    /\ inputMode = "paste"
    /\ errors.resume = MsgFileType
    /\ formData.resumeFile = NoFile
    /\ formData.resumeText = ""


====
